---- MODULE Spec2Model ----
(***************************************************************************)
(* Model of books2.py: a FastAPI book catalog (the in-process list BOOKS)  *)
(* whose read_all_books, read_book_by_rating and create_book handlers are  *)
(* wrapped by the cache_response decorator, which memoizes responses in a  *)
(* Redis store under a key rendered from the call.                         *)
(*                                                                         *)
(* Python values are tagged records [t |-> type, v |-> value]; texts (the  *)
(* cache keys, the JSON payloads) are real strings built the way str(),    *)
(* repr() and json.dumps() build them.                                     *)
(***************************************************************************)
EXTENDS Integers, Sequences, FiniteSets, TLC

VARIABLES BOOKS, store, served, callA, callB, keyA, keyB, tasks, running

vars == <<BOOKS, store, served, callA, callB, keyA, keyB, tasks, running>>

(***************************************************************************)
(* Bounds of the model.                                                    *)
(***************************************************************************)
\* MaxId caps the ids of the catalog where the reads are cached (Spec),
\* MaxCatalogId where the catalog is explored on its own (SpecCatalog).
MaxId == 2
MaxCatalogId == 3
TickStep == 300
MaxFail == 1
\* MaxLoopFail is the last Redis call of a request that SpecFail lets fail:
\* the get, then a set and an expire for each of two list items.
MaxLoopFail == 5
\* MaxMixId caps the ids of the catalog where calls of one handler with
\* different arguments are cached side by side (SpecMix).
MaxMixId == 2
\* MaxInFlight is the number of requests the event loop holds at a time,
\* MaxConcId the cap on the ids of the catalog they work on (SpecConc).
MaxInFlight == 2
MaxConcId == 2

(***************************************************************************)
(* Program constants.                                                      *)
(***************************************************************************)
ttl_seconds == 600
HTTP_200_OK == 200
HTTP_201_CREATED == 201
HTTP_204_NO_CONTENT == 204
HTTP_404_NOT_FOUND == 404
HTTP_500_INTERNAL_SERVER_ERROR == 500

\* Python's None in the Optional[int] field BookRequest.id; every real id of
\* the model is drawn from 1..MaxId, so the encoding collides with none.
None == 0 - 1

\* A key with no time to live (Redis reports TTL -1 for it).
NoExpiry == 0 - 1

(***************************************************************************)
(* Entities.  Book and BookRequest carry the same six attributes in the    *)
(* same order, so one record shape stands for the __dict__ of either.      *)
(* Clients post "X book" to create and put "Y book" to update.             *)
(***************************************************************************)
BookRequest(id, title, rating) ==
    [id |-> id, title |-> title, author |-> "A", description |-> "d",
     rating |-> rating, published_date |-> 2020]

\* the bodies of POST /create-book: the id is optional and a client may send one
CreateBodies == {BookRequest(i, "X book", 2) : i \in {None, 1}}

\* the bodies of PUT /books/update_book
UpdateBodies(cap) == {BookRequest(i, "Y book", 4) : i \in {None} \cup (1..cap)}

\* the values of the query parameter book_rating: gt=0, lt=6
RatingArgs == 1..5

\* Book(**book_request.model_dump()): the request's fields, copied.
Book(fields) ==
    [id |-> fields.id, title |-> fields.title, author |-> fields.author,
     description |-> fields.description, rating |-> fields.rating,
     published_date |-> fields.published_date]

(***************************************************************************)
(* Python values.                                                          *)
(***************************************************************************)
PyInt(i) == [t |-> "int", v |-> i]
PyStr(s) == [t |-> "str", v |-> s]
PyDict(d) == [t |-> "dict", v |-> d]
PyList(xs) == [t |-> "list", v |-> xs]
PyObject(o) == [t |-> "object", v |-> o]
PyNone == [t |-> "NoneType", v |-> None]

(***************************************************************************)
(* str()/repr() as the f-string of the key applies them.                   *)
(***************************************************************************)
ReprInt(i) == IF i = None THEN "None" ELSE ToString(i)

ReprStr(s) == "'" \o s \o "'"

\* pydantic's BaseModel.__repr__: ClassName(field=repr(value), ...)
ReprBookRequest(r) ==
    "BookRequest(id=" \o ReprInt(r.id)
      \o ", title=" \o ReprStr(r.title)
      \o ", author=" \o ReprStr(r.author)
      \o ", description=" \o ReprStr(r.description)
      \o ", rating=" \o ReprInt(r.rating)
      \o ", published_date=" \o ReprInt(r.published_date) \o ")"

Repr(x) ==
    IF x.t = "int" THEN ReprInt(x.v)
    ELSE IF x.t = "str" THEN ReprStr(x.v)
    ELSE ReprBookRequest(x.v)

RECURSIVE JoinRepr(_)
JoinRepr(xs) ==
    IF Len(xs) = 0 THEN ""
    ELSE IF Len(xs) = 1 THEN Repr(xs[1])
    ELSE Repr(xs[1]) \o ", " \o JoinRepr(Tail(xs))

\* repr of the positional tuple: (), (x,), (x, y)
ReprTuple(args) ==
    IF Len(args) = 1 THEN "(" \o Repr(args[1]) \o ",)"
    ELSE "(" \o JoinRepr(args) \o ")"

\* repr of the keyword dict, in the order the call passed the keywords
RECURSIVE JoinItems(_)
JoinItems(kw) ==
    IF Len(kw) = 0 THEN ""
    ELSE IF Len(kw) = 1 THEN ReprStr(kw[1].name) \o ": " \o Repr(kw[1].value)
    ELSE ReprStr(kw[1].name) \o ": " \o Repr(kw[1].value) \o ", " \o JoinItems(Tail(kw))

ReprDict(kwargs) == "{" \o JoinItems(kwargs) \o "}"

\* CacheKey rendering the names of the keyword arguments without their
\* values: f"{func.__name__}:{args}:{list(kwargs)}"
RECURSIVE JoinNames(_)
JoinNames(kw) ==
    IF Len(kw) = 0 THEN ""
    ELSE IF Len(kw) = 1 THEN ReprStr(kw[1].name)
    ELSE ReprStr(kw[1].name) \o ", " \o JoinNames(Tail(kw))

CacheKey_KeywordNames(name, args, kwargs) ==
    name \o ":" \o ReprTuple(args) \o ":[" \o JoinNames(kwargs) \o "]"

\* CacheKey with the keyword arguments left out of the key
CacheKey_NoKwargs(name, args, kwargs) ==
    name \o ":" \o ReprTuple(args)

\* key = f"{func.__name__}:{args}:{kwargs}"
CacheKey(name, args, kwargs) ==
    name \o ":" \o ReprTuple(args) \o ":" \o ReprDict(kwargs)

(***************************************************************************)
(* json.dumps / json.loads.                                                *)
(***************************************************************************)
Quote == "\""
EscapedQuote == "\\\""

JsonInt(i) == IF i = None THEN "null" ELSE ToString(i)

\* json.dumps of a field mapping with the default separators; q is the text
\* of a quotation mark, escaped when the mapping's text sits inside a string
DictText(d, q) ==
    "{" \o q \o "id" \o q \o ": " \o JsonInt(d.id)
      \o ", " \o q \o "title" \o q \o ": " \o q \o d.title \o q
      \o ", " \o q \o "author" \o q \o ": " \o q \o d.author \o q
      \o ", " \o q \o "description" \o q \o ": " \o q \o d.description \o q
      \o ", " \o q \o "rating" \o q \o ": " \o JsonInt(d.rating)
      \o ", " \o q \o "published_date" \o q \o ": " \o JsonInt(d.published_date)
      \o "}"

\* the __dict__ of every entity the catalog can hold, and of the entity a
\* create_book makes of a catalog that is full up to MaxCatalogId
Dicts ==
    {BookRequest(i, "X book", 2) : i \in 1..(MaxCatalogId + 1)}
      \cup {BookRequest(i, "Y book", 4) : i \in 1..MaxCatalogId}

\* the text of every such mapping, with the same text as it reads inside a
\* JSON string (between quotation marks, its own quotation marks escaped)
DictTexts ==
    {[text |-> DictText(d, Quote), dict |-> d,
      quoted |-> Quote \o DictText(d, EscapedQuote) \o Quote] : d \in Dicts}

\* json.dumps of a str; the only strings the decorator dumps are the texts
\* of field mappings
JsonStr(s) == (CHOOSE e \in DictTexts : e.text = s).quoted

RECURSIVE JoinJson(_)
JoinJson(xs) ==
    IF Len(xs) = 0 THEN ""
    ELSE IF Len(xs) = 1 THEN JsonStr(xs[1].v)
    ELSE JsonStr(xs[1].v) \o ", " \o JoinJson(Tail(xs))

json_dumps(x) ==
    IF x.t = "dict" THEN DictText(x.v, Quote)
    ELSE "[" \o JoinJson(x.v) \o "]"

\* the lists of entities a handler can return: in ascending order of id
Ascending(xs) == \A i \in 1..(Len(xs) - 1) : xs[i].id < xs[i + 1].id

EntityLists ==
    {xs \in UNION {[1..n -> {d \in Dicts : d.id <= MaxCatalogId}] : n \in 0..MaxCatalogId} :
        Ascending(xs)}

\* the values whose texts the decorator stores, each with its text: a field
\* mapping, or a list of strings, each the text of a field mapping
JsonTable ==
    {[text |-> e.text, value |-> PyDict(e.dict)] : e \in DictTexts}
      \cup {[text |-> json_dumps(PyList([i \in 1..Len(xs) |-> PyStr(DictText(xs[i], Quote))])),
             value |-> PyList([i \in 1..Len(xs) |-> PyStr(DictText(xs[i], Quote))])] :
               xs \in EntityLists}

\* json.loads: the value whose text this is
json_loads(text) == (CHOOSE e \in JsonTable : e.text = text).value

(***************************************************************************)
(* The Redis client: get, set, expire.  An entry is its value and its      *)
(* remaining time to live; a key whose time is up is gone.                 *)
(***************************************************************************)
redis_get(S, key) ==
    IF key \in DOMAIN S THEN [present |-> TRUE, value |-> S[key].value]
    ELSE [present |-> FALSE, value |-> ""]

\* SET replaces the value and discards any time to live
redis_set(S, key, value) ==
    [k \in DOMAIN S \cup {key} |->
        IF k = key THEN [value |-> value, ttl |-> NoExpiry] ELSE S[k]]

redis_expire(S, key, seconds) ==
    IF key \in DOMAIN S THEN [S EXCEPT ![key].ttl = seconds] ELSE S

\* "if cached_result:" - None and empty bytes are both falsy
Truthy(cached) == cached.present /\ cached.value # ""

(***************************************************************************)
(* The handler bodies: each yields its result and the catalog it leaves.   *)
(***************************************************************************)
\* find_book_id numbering by the length of the catalog
find_book_id_Count(B, book) ==
    [book EXCEPT !.id = Len(B) + 1]

find_book_id(B, book) ==
    [book EXCEPT !.id = IF Len(B) = 0 THEN 1 ELSE B[Len(B)].id + 1]

read_all_books(B) == [result |-> PyList(B), books |-> B]

\* read_book_by_rating keeping the ratings strictly below book_rating
read_book_by_rating_Below(B, book_rating) ==
    [result |-> PyList(SelectSeq(B, LAMBDA book : book.rating < book_rating)),
     books |-> B]

read_book_by_rating(B, book_rating) ==
    [result |-> PyList(SelectSeq(B, LAMBDA book : book.rating <= book_rating)),
     books |-> B]

\* create_book numbering the entity only when the request carries no id
create_book_KeepId(B, book_request) ==
    LET new_book == IF book_request.id = None
                    THEN find_book_id(B, Book(book_request))
                    ELSE Book(book_request)
    IN  [result |-> PyObject(new_book), books |-> Append(B, new_book)]

create_book(B, book_request) ==
    LET new_book == find_book_id(B, Book(book_request))
    IN  [result |-> PyObject(new_book), books |-> Append(B, new_book)]

Handler(func, kwargs, B) ==
    IF func = "read_all_books" THEN read_all_books(B)
    ELSE IF func = "read_book_by_rating" THEN read_book_by_rating(B, kwargs[1].value.v)
    ELSE create_book(B, kwargs[1].value.v)

(***************************************************************************)
(* cache_response.wrapper.  fail is the number of the Redis call that      *)
(* raises (0: none does); the calls are numbered in the order the wrapper  *)
(* makes them, the get being call 1.                                       *)
(***************************************************************************)
Raised(B, S) ==
    [status |-> HTTP_500_INTERNAL_SERVER_ERROR, body |-> PyStr("Internal Server Error"),
     hit |-> FALSE, returned |-> FALSE, books |-> B, store |-> S]

\* the loop with set and expire as one call (SETEX): a failure at the
\* expire leaves nothing of the set
RECURSIVE StoreList_Atomic(_, _, _, _, _, _, _, _, _)
StoreList_Atomic(ok, B, S, key, result, i, result_list, calls, fail) ==
    IF i > Len(result)
    THEN [status |-> ok, body |-> PyList(result_list), hit |-> FALSE,
          returned |-> TRUE, books |-> B, store |-> S]
    ELSE LET rl == Append(result_list, PyStr(json_dumps(PyDict(result[i]))))
             S2 == redis_expire(redis_set(S, key, json_dumps(PyList(rl))), key, ttl_seconds)
         IN  IF fail = calls + 1 \/ fail = calls + 2 THEN Raised(B, S)
             ELSE StoreList_Atomic(ok, B, S2, key, result, i + 1, rl, calls + 2, fail)

\* lines 29-34: the loop over the list result, entered at index i with
\* result_list accumulated and calls Redis calls made so far
RECURSIVE StoreList(_, _, _, _, _, _, _, _, _)
StoreList(ok, B, S, key, result, i, result_list, calls, fail) ==
    IF i > Len(result)
    THEN [status |-> ok, body |-> PyList(result_list), hit |-> FALSE,
          returned |-> TRUE, books |-> B, store |-> S]
    ELSE LET rl == Append(result_list, PyStr(json_dumps(PyDict(result[i]))))
             S1 == redis_set(S, key, json_dumps(PyList(rl)))
             S2 == redis_expire(S1, key, ttl_seconds)
         IN  IF fail = calls + 1 THEN Raised(B, S)
             ELSE IF fail = calls + 2 THEN Raised(B, S1)
             ELSE StoreList(ok, B, S2, key, result, i + 1, rl, calls + 2, fail)

\* the single result stored by a set alone, the expire forgotten
StoreOne_NoExpire(ok, B, S, key, result, fail) ==
    LET S1 == redis_set(S, key, json_dumps(PyDict(result.v)))
    IN  IF fail = 2 THEN Raised(B, S)
        ELSE [status |-> ok, body |-> result, hit |-> FALSE,
              returned |-> TRUE, books |-> B, store |-> S1]

\* lines 36-38: a result that is not a list
StoreOne(ok, B, S, key, result, fail) ==
    LET S1 == redis_set(S, key, json_dumps(PyDict(result.v)))
        S2 == redis_expire(S1, key, ttl_seconds)
    IN  IF fail = 2 THEN Raised(B, S)
        ELSE IF fail = 3 THEN Raised(B, S1)
        ELSE [status |-> ok, body |-> result, hit |-> FALSE,
              returned |-> TRUE, books |-> B, store |-> S2]

\* wrapper without the return on a hit: the handler runs on every call
wrapper_AlwaysRun(func, ok, kwargs, B, S, fail) ==
    LET key == CacheKey(func, <<>>, kwargs)
        ran == Handler(func, kwargs, B)
    IN  IF fail = 1 THEN Raised(B, S)
        ELSE IF ran.result.t = "list"
        THEN StoreList(ok, ran.books, S, key, ran.result.v, 1, <<>>, 1, fail)
        ELSE StoreOne(ok, ran.books, S, key, ran.result, fail)

\* wrapper with a sliding expiration: a hit starts the entry's ttl afresh
wrapper_ExpireOnHit(func, ok, kwargs, B, S, fail) ==
    LET key == CacheKey(func, <<>>, kwargs)
        cached_result == redis_get(S, key)
        ran == Handler(func, kwargs, B)
    IN  IF fail = 1 THEN Raised(B, S)
        ELSE IF Truthy(cached_result)
        THEN [status |-> ok, body |-> json_loads(cached_result.value), hit |-> TRUE,
              returned |-> TRUE, books |-> B,
              store |-> redis_expire(S, key, ttl_seconds)]
        ELSE IF ran.result.t = "list"
        THEN StoreList(ok, ran.books, S, key, ran.result.v, 1, <<>>, 1, fail)
        ELSE StoreOne(ok, ran.books, S, key, ran.result, fail)

wrapper(func, ok, kwargs, B, S, fail) ==
    LET key == CacheKey(func, <<>>, kwargs)
        cached_result == redis_get(S, key)
        ran == Handler(func, kwargs, B)
    IN  IF fail = 1 THEN Raised(B, S)
        ELSE IF Truthy(cached_result)
        THEN [status |-> ok, body |-> json_loads(cached_result.value), hit |-> TRUE,
              returned |-> TRUE, books |-> B, store |-> S]
        ELSE IF ran.result.t = "list"
        THEN StoreList(ok, ran.books, S, key, ran.result.v, 1, <<>>, 1, fail)
        ELSE StoreOne(ok, ran.books, S, key, ran.result, fail)

(***************************************************************************)
(* The handlers that are not wrapped.                                      *)
(***************************************************************************)
NotFound ==
    [status |-> HTTP_404_NOT_FOUND, body |-> PyStr("Item not found")]

\* the index of the first entry of B whose id is id, 0 when there is none
RECURSIVE Scan(_, _, _)
Scan(B, id, i) ==
    IF i > Len(B) THEN 0
    ELSE IF B[i].id = id THEN i
    ELSE Scan(B, id, i + 1)

read_book(B, book_id) ==
    LET i == Scan(B, book_id, 1)
    IN  IF i = 0 THEN NotFound
        ELSE [status |-> HTTP_200_OK, body |-> PyObject(B[i])]

\* update_book comparing the position, not the id, with book.id
update_book_ByIndex(B, book) ==
    LET changed == [i \in 1..Len(B) |-> IF i = book.id THEN book ELSE B[i]]
        book_changed == \E i \in 1..Len(B) : i = book.id
    IN  IF book_changed
        THEN [status |-> HTTP_204_NO_CONTENT, body |-> PyNone, books |-> changed]
        ELSE [status |-> NotFound.status, body |-> NotFound.body, books |-> B]

\* the loop has no break: every entry with the id is replaced
update_book(B, book) ==
    LET changed == [i \in 1..Len(B) |-> IF B[i].id = book.id THEN book ELSE B[i]]
        book_changed == \E i \in 1..Len(B) : B[i].id = book.id
    IN  IF book_changed
        THEN [status |-> HTTP_204_NO_CONTENT, body |-> PyNone, books |-> changed]
        ELSE [status |-> NotFound.status, body |-> NotFound.body, books |-> B]

\* BOOKS.pop() without the index: the last entry goes
Pop_Last(B, i) == SubSeq(B, 1, Len(B) - 1)

\* BOOKS.pop(i): the list without its i-th entry
Pop(B, i) == SubSeq(B, 1, i - 1) \o SubSeq(B, i + 1, Len(B))

\* delete_book without the pop
delete_book_NoPop(B, book_id) ==
    LET i == Scan(B, book_id, 1)
    IN  IF i = 0
        THEN [status |-> NotFound.status, body |-> NotFound.body, books |-> B]
        ELSE [status |-> HTTP_204_NO_CONTENT, body |-> PyNone, books |-> B]

delete_book(B, book_id) ==
    LET i == Scan(B, book_id, 1)
    IN  IF i = 0
        THEN [status |-> NotFound.status, body |-> NotFound.body, books |-> B]
        ELSE [status |-> HTTP_204_NO_CONTENT, body |-> PyNone, books |-> Pop(B, i)]

(***************************************************************************)
(* The state machine.  BOOKS is the catalog and store the Redis database.  *)
(* served remembers, for each key, the payload the latest miss returned    *)
(* and what is left of the ttl that started then.  callA, callB, keyA and  *)
(* keyB belong to the specification of the key derivation, SpecKey; tasks  *)
(* and running to the specification of the event loop, SpecConc.           *)
(***************************************************************************)
EmptyStore == [k \in {} |-> [value |-> "", ttl |-> NoExpiry]]

EmptyServed == [k \in {} |-> [body |-> PyNone, left |-> 0]]

NoKwargs == <<>>

Kw(name, value) == [name |-> name, value |-> value]

NoCall == [func |-> "", args |-> <<>>, kwargs |-> <<>>]

\* the requests the event loop holds, one to a slot; a free slot is Idle
Slots == 1..MaxInFlight

Idle == [pc |-> "idle", func |-> "", arg |-> PyNone, local |-> PyNone]

NoTasks == [r \in Slots |-> Idle]

Init ==
    /\ BOOKS = <<>>
    /\ store = EmptyStore
    /\ served = EmptyServed
    /\ callA = NoCall
    /\ callB = NoCall
    /\ keyA = ""
    /\ keyB = ""
    /\ tasks = NoTasks
    /\ running = 0

\* the requests the model sends
FailPoints == 0..MaxFail

BookRatings == {3}

KwAll == NoKwargs

KwRating(book_rating) == <<Kw("book_rating", PyInt(book_rating))>>

KwCreate(book_request) == <<Kw("book_request", PyObject(book_request))>>

\* FastAPI calls a handler with its parameters as keywords, none positional;
\* the outcome of a request to a wrapped route in the current state
Respond(func, ok, kwargs, fail) == wrapper(func, ok, kwargs, BOOKS, store, fail)

KeyOf(func, kwargs) == CacheKey(func, <<>>, kwargs)

\* what a request to a wrapped route leaves behind: the outcome r of the
\* wrapper, under the key of the call; the model stops at ids above cap
Serve(r, key, cap) ==
    /\ \A i \in 1..Len(r.books) : r.books[i].id <= cap
    /\ BOOKS' = r.books
    /\ store' = r.store
    /\ served' = IF r.returned /\ ~r.hit
                 THEN [k \in DOMAIN served \cup {key} |->
                          IF k = key THEN [body |-> r.body, left |-> ttl_seconds]
                          ELSE served[k]]
                 ELSE served
    /\ UNCHANGED <<callA, callB, keyA, keyB, tasks, running>>

ReadAllBooks(fail) ==
    LET r == Respond("read_all_books", HTTP_200_OK, KwAll, fail)
    IN  Serve(r, KeyOf("read_all_books", KwAll), MaxId)

ReadBookByRating(book_rating, fail) ==
    LET r == Respond("read_book_by_rating", HTTP_200_OK, KwRating(book_rating), fail)
    IN  Serve(r, KeyOf("read_book_by_rating", KwRating(book_rating)), MaxId)

CreateBook(book_request, fail, cap) ==
    LET r == Respond("create_book", HTTP_201_CREATED, KwCreate(book_request), fail)
    IN  Serve(r, KeyOf("create_book", KwCreate(book_request)), cap)

UpdateBook(book) ==
    /\ BOOKS' = update_book(BOOKS, book).books
    /\ UNCHANGED <<store, served, callA, callB, keyA, keyB, tasks, running>>

DeleteBook(book_id) ==
    /\ BOOKS' = delete_book(BOOKS, book_id).books
    /\ UNCHANGED <<store, served, callA, callB, keyA, keyB, tasks, running>>

\* seconds pass: Redis counts every time to live down and drops the keys
\* whose time is up
Elapse(S, seconds) ==
    LET alive == {k \in DOMAIN S : S[k].ttl = NoExpiry \/ S[k].ttl > seconds}
    IN  [k \in alive |->
            IF S[k].ttl = NoExpiry THEN S[k] ELSE [S[k] EXCEPT !.ttl = @ - seconds]]

Tick ==
    /\ store' = Elapse(store, TickStep)
    /\ served' = [k \in {j \in DOMAIN served : served[j].left > TickStep} |->
                     [served[k] EXCEPT !.left = @ - TickStep]]
    /\ UNCHANGED <<BOOKS, callA, callB, keyA, keyB, tasks, running>>

\* every route, the catalog capped at MaxId
Next ==
    \/ \E fail \in FailPoints : ReadAllBooks(fail)
    \/ \E book_rating \in BookRatings, fail \in FailPoints : ReadBookByRating(book_rating, fail)
    \/ \E fail \in FailPoints : CreateBook(BookRequest(None, "X book", 2), fail, MaxId)
    \/ \E book \in UpdateBodies(MaxId) : UpdateBook(book)
    \/ \E book_id \in 1..MaxId : DeleteBook(book_id)
    \/ Tick

Spec == Init /\ [][Next]_vars

\* the routes that write the catalog, the catalog capped at MaxCatalogId
NextCatalog ==
    \/ \E book_request \in CreateBodies, fail \in FailPoints :
          CreateBook(book_request, fail, MaxCatalogId)
    \/ \E book \in UpdateBodies(MaxCatalogId) : UpdateBook(book)
    \/ \E book_id \in 1..MaxCatalogId : DeleteBook(book_id)
    \/ Tick

SpecCatalog == Init /\ [][NextCatalog]_vars

\* a wrapped route of each result shape with any one Redis call of a
\* request failing, among them the set and the expire of each list item;
\* delete_book shortens the catalog again
LoopFailPoints == 0..MaxLoopFail

NextFail ==
    \/ \E fail \in LoopFailPoints : ReadAllBooks(fail)
    \/ \E fail \in LoopFailPoints : CreateBook(BookRequest(None, "X book", 2), fail, MaxId)
    \/ \E book_id \in 1..MaxId : DeleteBook(book_id)
    \/ Tick

SpecFail == Init /\ [][NextFail]_vars

\* read_book_by_rating with two values of book_rating next to create_book,
\* any one Redis call of a request failing; update_book changes the rating
\* of an entity; the catalog capped at MaxMixId
MixRatings == {3, 5}

NextMix ==
    \/ \E book_rating \in MixRatings, fail \in LoopFailPoints :
          ReadBookByRating(book_rating, fail)
    \/ \E fail \in LoopFailPoints :
          CreateBook(BookRequest(None, "X book", 2), fail, MaxMixId)
    \/ \E book \in UpdateBodies(MaxMixId) : UpdateBook(book)
    \/ Tick

SpecMix == Init /\ [][NextMix]_vars

(***************************************************************************)
(* The event loop.  Every endpoint is a coroutine of the one loop of the   *)
(* process.  A request that has arrived waits at "received" for the loop   *)
(* to start its endpoint; "found" is the point inside the handler body     *)
(* between its read of the catalog (the last id, the scan) and its write   *)
(* (the append, the replacement, the pop).  The loop switches to another   *)
(* coroutine only where the running one suspends: running is the slot of   *)
(* the coroutine that holds the loop, 0 when none does.                    *)
(***************************************************************************)
\* the requests that write the catalog
ConcRequests ==
    {[func |-> "create_book", arg |-> PyObject(BookRequest(None, "X book", 2))]}
      \cup {[func |-> "update_book", arg |-> PyObject(b)] : b \in UpdateBodies(MaxConcId)}
      \cup {[func |-> "delete_book", arg |-> PyInt(id)] : id \in 1..MaxConcId}

\* a loop that may switch coroutines at any point of a handler
Suspends_Anywhere(pc) == TRUE

\* the points where a coroutine gives up the loop: the handlers and the
\* wrapper await nothing that suspends (the Redis client is synchronous),
\* so none lies between the start of an endpoint and its return
Suspends(pc) == pc # "found"

\* the indices a scan for id finds in B
Matches(B, id) == [t |-> "indices", v |-> {i \in 1..Len(B) : B[i].id = id}]

\* the request is read off the connection and parsed
Arrive(r, request) ==
    /\ tasks[r].pc = "idle"
    /\ tasks' = [tasks EXCEPT ![r] = [pc |-> "received", func |-> request.func,
                                        arg |-> request.arg, local |-> PyNone]]
    /\ UNCHANGED <<BOOKS, store, served, callA, callB, keyA, keyB, running>>

\* the loop starts the endpoint of r, which runs up to its write of the
\* catalog: create_book through the wrapper's get (on a hit it returns
\* there and then) and find_book_id, update_book and delete_book through
\* their scan
Enter(r) ==
    LET t == tasks[r]
        hit == Respond("create_book", HTTP_201_CREATED, <<Kw("book_request", t.arg)>>, 0).hit
        local == IF t.func = "create_book" THEN PyObject(find_book_id(BOOKS, Book(t.arg.v)))
                 ELSE IF t.func = "update_book" THEN Matches(BOOKS, t.arg.v.id)
                 ELSE PyInt(Scan(BOOKS, t.arg.v, 1))
    IN  /\ t.pc = "received"
        /\ running = 0
        /\ IF t.func = "create_book" /\ hit
           THEN /\ tasks' = [tasks EXCEPT ![r] = Idle]
                /\ running' = 0
           ELSE /\ t.func = "create_book" => local.v.id <= MaxConcId
                /\ tasks' = [tasks EXCEPT ![r] = [t EXCEPT !.pc = "found", !.local = local]]
                /\ running' = IF Suspends("found") THEN 0 ELSE r
        /\ UNCHANGED <<BOOKS, store, served, callA, callB, keyA, keyB>>

\* the endpoint of r writes the catalog with what it read and returns:
\* create_book appends the entity it numbered and the wrapper stores it,
\* update_book replaces the entries it matched, delete_book pops the entry
\* it found
Leave(r) ==
    LET t == tasks[r]
        key == KeyOf("create_book", <<Kw("book_request", t.arg)>>)
        appended == Append(BOOKS, t.local.v)
        replaced == [i \in 1..Len(BOOKS) |-> IF i \in t.local.v THEN t.arg.v ELSE BOOKS[i]]
        popped == IF t.local.v \in 1..Len(BOOKS) THEN Pop(BOOKS, t.local.v) ELSE BOOKS
    IN  /\ t.pc = "found"
        /\ running \in {0, r}
        /\ BOOKS' = IF t.func = "create_book" THEN appended
                     ELSE IF t.func = "update_book" THEN replaced
                     ELSE popped
        /\ store' = IF t.func = "create_book"
                     THEN StoreOne(HTTP_201_CREATED, appended, store, key, t.local, 0).store
                     ELSE store
        /\ tasks' = [tasks EXCEPT ![r] = Idle]
        /\ running' = 0
        /\ UNCHANGED <<served, callA, callB, keyA, keyB>>

NextConc ==
    \/ \E r \in Slots, request \in ConcRequests : Arrive(r, request)
    \/ \E r \in Slots : Enter(r)
    \/ \E r \in Slots : Leave(r)
    \/ Tick

SpecConc == Init /\ [][NextConc]_vars

(***************************************************************************)
(* The key derivation on its own: two calls are drawn, then their keys     *)
(* derived.  The decorator takes any positional and keyword arguments, so  *)
(* the calls go beyond those FastAPI makes.                                *)
(***************************************************************************)
KeyFuncs == {"read_all_books", "read_book_by_rating", "create_book"}

KeyArgs == {<<>>, <<PyInt(1)>>, <<PyInt(1), PyInt(2)>>, <<PyInt(2), PyInt(1)>>}

KeyKwargs ==
    {NoKwargs}
      \cup {KwRating(n) : n \in RatingArgs}
      \cup {KwCreate(b) : b \in CreateBodies \cup UpdateBodies(1)}
      \cup {<<Kw("a", PyInt(x)), Kw("b", PyInt(y))>> : x, y \in 1..2}
      \cup {<<Kw("b", PyInt(y)), Kw("a", PyInt(x))>> : x, y \in 1..2}

KeyCalls == [func : KeyFuncs, args : KeyArgs, kwargs : KeyKwargs]

KeyInit ==
    /\ BOOKS = <<>>
    /\ store = EmptyStore
    /\ served = EmptyServed
    /\ callA \in KeyCalls
    /\ callB \in KeyCalls
    /\ keyA = ""
    /\ keyB = ""
    /\ tasks = NoTasks
    /\ running = 0

DeriveKeys ==
    /\ keyA = ""
    /\ keyA' = CacheKey(callA.func, callA.args, callA.kwargs)
    /\ keyB' = CacheKey(callB.func, callB.args, callB.kwargs)
    /\ UNCHANGED <<BOOKS, store, served, callA, callB, tasks, running>>

KeyNext == DeriveKeys

SpecKey == KeyInit /\ [][KeyNext]_vars

(***************************************************************************)
(* The calls the claims range over, and what they compare.                 *)
(***************************************************************************)
ReadCalls ==
    {[func |-> "read_all_books", ok |-> HTTP_200_OK, kwargs |-> KwAll]}
      \cup {[func |-> "read_book_by_rating", ok |-> HTTP_200_OK, kwargs |-> KwRating(n)] :
              n \in RatingArgs}

CreateCalls ==
    {[func |-> "create_book", ok |-> HTTP_201_CREATED, kwargs |-> KwCreate(b)] :
        b \in CreateBodies}

\* the outcome of call c in the current state, no Redis call failing
Outcome(c) == Respond(c.func, c.ok, c.kwargs, 0)

\* the ids of the catalog B
Ids(B) == {B[i].id : i \in 1..Len(B)}

\* texts is a list of strings that decode, one by one and in order, to the
\* field mappings of the entities of the list result
DecodesTo(texts, result) ==
    /\ Len(texts) = Len(result)
    /\ \A i \in 1..Len(result) :
          /\ texts[i].t = "str"
          /\ json_loads(texts[i].v) = PyDict(result[i])

\* the cached value text holds the whole of a handler's result
HoldsResult(text, result) ==
    IF result.t = "list"
    THEN /\ json_loads(text).t = "list"
         /\ DecodesTo(json_loads(text).v, result.v)
    ELSE json_loads(text) = PyDict(result.v)

\* entity has the fields of the request body, the id aside
SameFields(entity, body) ==
    /\ entity.title = body.title
    /\ entity.author = body.author
    /\ entity.description = body.description
    /\ entity.rating = body.rating
    /\ entity.published_date = body.published_date

(***************************************************************************)
(* C1.  Miss-then-store.                                                   *)
(***************************************************************************)
\* C1: a wrapped read that misses returns the live catalog contents, and a
\* call made while the ttl started by the latest miss of the same call is
\* still running returns the payload that miss returned, whatever happened
\* to the catalog in between.
C1_MissThenStore ==
    \A c \in ReadCalls :
        LET o == Outcome(c)
            key == KeyOf(c.func, c.kwargs)
        IN  /\ ~o.hit =>
                 /\ o.body.t = "list"
                 /\ DecodesTo(o.body.v, Handler(c.func, c.kwargs, BOOKS).result.v)
            /\ key \in DOMAIN served => o.body = served[key].body

(***************************************************************************)
(* C2.  Hit bypass.                                                        *)
(***************************************************************************)
\* C2: when the store holds an entry under the key of a create_book call,
\* the call leaves the catalog as it is and, unless the get itself fails,
\* answers 201 with the cached payload and leaves the store as it is.
C2_HitBypass ==
    \A b \in CreateBodies, fail \in FailPoints :
        LET o == Respond("create_book", HTTP_201_CREATED, KwCreate(b), fail)
            key == KeyOf("create_book", KwCreate(b))
        IN  key \in DOMAIN store =>
              /\ o.books = BOOKS
              /\ o.returned =>
                   /\ o.hit
                   /\ o.status = HTTP_201_CREATED
                   /\ o.body.t = "dict"
                   /\ json_dumps(o.body) = store[key].value
                   /\ o.store = store

\* a create_book entry is cached while the catalog is empty again: the hit
\* answers with an entity and creates none
C2_Witness ==
    /\ BOOKS = <<>>
    /\ \E b \in CreateBodies : KeyOf("create_book", KwCreate(b)) \in DOMAIN store

(***************************************************************************)
(* C3.  Store on miss.                                                     *)
(***************************************************************************)
\* C3: after a wrapped call that misses and returns, the store holds under
\* the call's key the serialization of the handler's whole result, with
\* ttl_seconds to live.
C3_StoreOnMiss ==
    \A c \in ReadCalls \cup CreateCalls :
        LET o == Outcome(c)
            key == KeyOf(c.func, c.kwargs)
        IN  (~o.hit /\ o.returned) =>
              /\ key \in DOMAIN o.store
              /\ o.store[key].ttl = ttl_seconds
              /\ HoldsResult(o.store[key].value, Handler(c.func, c.kwargs, BOOKS).result)

SamePairs(kwA, kwB) ==
    /\ Len(kwA) = Len(kwB)
    /\ {kwA[i] : i \in 1..Len(kwA)} = {kwB[i] : i \in 1..Len(kwB)}

\* C5: two calls of one handler with the same positional arguments and the
\* same keyword name/value pairs, in whatever order, derive the same key.
C5_KeywordOrder ==
    (/\ keyA # ""
     /\ callA.func = callB.func
     /\ callA.args = callB.args
     /\ SamePairs(callA.kwargs, callB.kwargs)) => keyA = keyB

(***************************************************************************)
(* C6.  Id assignment.                                                     *)
(***************************************************************************)
\* C6: a create_book call that executes its handler (the get succeeds and
\* finds nothing) appends one entity at the end of the catalog, with the
\* fields of the request and the id 1 when the catalog is empty, otherwise
\* the id of the last entity plus 1; the entity it returns is that one.
C6_IdAssignment ==
    \A b \in CreateBodies, fail \in FailPoints :
        LET o == Respond("create_book", HTTP_201_CREATED, KwCreate(b), fail)
            key == KeyOf("create_book", KwCreate(b))
            n == Len(BOOKS)
            id == IF n = 0 THEN 1 ELSE BOOKS[n].id + 1
        IN  (fail # 1 /\ key \notin DOMAIN store) =>
              /\ Len(o.books) = n + 1
              /\ \A i \in 1..n : o.books[i] = BOOKS[i]
              /\ o.books[n + 1].id = id
              /\ SameFields(o.books[n + 1], b)
              /\ o.returned => o.body = PyObject(o.books[n + 1])

\* ids 1, 2, 3 were created, the last entity deleted and one more created:
\* the catalog ends with id 3 again, and the entries of both create
\* requests, each cached when it created an entity, hold an entity of id 3
C6_Witness ==
    /\ Len(BOOKS) = 3
    /\ BOOKS[1].id = 1 /\ BOOKS[2].id = 2 /\ BOOKS[3].id = 3
    /\ \A b \in CreateBodies :
          /\ KeyOf("create_book", KwCreate(b)) \in DOMAIN store
          /\ json_loads(store[KeyOf("create_book", KwCreate(b))].value).v.id = 3

(***************************************************************************)
(* C7.  Create-then-get.                                                   *)
(***************************************************************************)
\* C7: when create_book answers 201 with an entity of id i, read_book(i)
\* right afterwards answers 200 with an entity of id i that has the fields
\* of the create request.
C7_CreateThenGet ==
    \A b \in CreateBodies :
        LET o == Respond("create_book", HTTP_201_CREATED, KwCreate(b), 0)
            got == read_book(o.books, o.body.v.id)
        IN  o.status = HTTP_201_CREATED =>
              /\ got.status = HTTP_200_OK
              /\ got.body.v.id = o.body.v.id
              /\ SameFields(got.body.v, b)

(***************************************************************************)
(* C8.  Delete-then-get.                                                   *)
(***************************************************************************)
\* C8: read_book answers from the live catalog alone: 200 with the entity
\* of the requested id when the catalog holds one, 404 otherwise, whatever
\* the store holds; and right after delete_book(i) answers 204,
\* read_book(i) answers 404.
C8_DeleteThenGet ==
    \A book_id \in 1..(MaxCatalogId + 1) :
        LET got == read_book(BOOKS, book_id)
            deleted == delete_book(BOOKS, book_id)
        IN  /\ book_id \in Ids(BOOKS) =>
                 /\ got.status = HTTP_200_OK
                 /\ got.body.t = "object"
                 /\ got.body.v.id = book_id
                 /\ \E i \in 1..Len(BOOKS) : BOOKS[i] = got.body.v
            /\ book_id \notin Ids(BOOKS) => got.status = HTTP_404_NOT_FOUND
            /\ deleted.status = HTTP_204_NO_CONTENT =>
                 read_book(deleted.books, book_id).status = HTTP_404_NOT_FOUND

\* the entity of id 2 was deleted from a catalog that still holds id 1,
\* the store still holds the create_book payload of id 2, and
\* read_book(2) answers 404
C8_Witness ==
    /\ Ids(BOOKS) = {1}
    /\ \E b \in CreateBodies :
          /\ KeyOf("create_book", KwCreate(b)) \in DOMAIN store
          /\ json_loads(store[KeyOf("create_book", KwCreate(b))].value).v.id = 2
    /\ read_book(BOOKS, 2).status = HTTP_404_NOT_FOUND

(***************************************************************************)
(* C9.  update_book.                                                       *)
(***************************************************************************)
\* C9: update_book with an entity whose id is in the catalog answers 204
\* and replaces the one entry of that id, in place, with the submitted
\* entity, every other entry and the length staying; with any other id, or
\* none, it answers 404 and leaves the catalog as it is.
C9_Update ==
    \A book \in UpdateBodies(MaxCatalogId) :
        LET o == update_book(BOOKS, book)
            at == {i \in 1..Len(BOOKS) : BOOKS[i].id = book.id}
        IN  IF at # {}
            THEN /\ o.status = HTTP_204_NO_CONTENT
                 /\ Cardinality(at) = 1
                 /\ Len(o.books) = Len(BOOKS)
                 /\ \A i \in 1..Len(BOOKS) :
                       o.books[i] = IF i \in at THEN book ELSE BOOKS[i]
            ELSE /\ o.status = HTTP_404_NOT_FOUND
                 /\ o.books = BOOKS

\* the first of two entities was updated: it is a "Y book" of the same id,
\* still first, and the second entity is the "X book" it was
C9_Witness ==
    /\ Len(BOOKS) = 2
    /\ BOOKS[1] = BookRequest(1, "Y book", 4)
    /\ BOOKS[2] = BookRequest(2, "X book", 2)

(***************************************************************************)
(* C10.  delete_book.                                                      *)
(***************************************************************************)
\* C10: delete_book with an id that is in the catalog answers 204 and
\* removes the first entry of that id and no other, the remaining entries
\* keeping their order; with any other id it answers 404 and leaves the
\* catalog as it is.
C10_Delete ==
    \A book_id \in 1..(MaxCatalogId + 1) :
        LET o == delete_book(BOOKS, book_id)
            at == {i \in 1..Len(BOOKS) : BOOKS[i].id = book_id}
        IN  IF at # {}
            THEN LET first == CHOOSE i \in at : \A j \in at : i <= j
                 IN  /\ o.status = HTTP_204_NO_CONTENT
                     /\ Len(o.books) = Len(BOOKS) - 1
                     /\ \A i \in 1..(first - 1) : o.books[i] = BOOKS[i]
                     /\ \A i \in first..(Len(BOOKS) - 1) : o.books[i] = BOOKS[i + 1]
            ELSE /\ o.status = HTTP_404_NOT_FOUND
                 /\ o.books = BOOKS

\* the first of three entities was deleted: the entities of ids 2 and 3
\* remain, in that order
C10_Witness ==
    /\ Len(BOOKS) = 2
    /\ BOOKS[1].id = 2
    /\ BOOKS[2].id = 3

(***************************************************************************)
(* C11.  The rating filter.                                                *)
(***************************************************************************)
\* the k-th smallest member of the set of indices at
NthOf(at, k) == CHOOSE i \in at : Cardinality({j \in at : j < i}) = k - 1

\* C11: for every N in 1..5, a read_book_by_rating(N) call that misses
\* answers 200 with one item per catalog entity of rating <= N and no other
\* item, the items in catalog order, each the field mapping of its entity
\* (as the JSON text the miss path returns), and leaves the catalog as it
\* is.
C11_RatingFilter ==
    \A n \in RatingArgs :
        LET o == Respond("read_book_by_rating", HTTP_200_OK, KwRating(n), 0)
            at == {i \in 1..Len(BOOKS) : BOOKS[i].rating <= n}
        IN  ~o.hit =>
              /\ o.status = HTTP_200_OK
              /\ o.books = BOOKS
              /\ o.body.t = "list"
              /\ Len(o.body.v) = Cardinality(at)
              /\ \A k \in 1..Cardinality(at) :
                    /\ o.body.v[k].t = "str"
                    /\ json_loads(o.body.v[k].v) = PyDict(BOOKS[NthOf(at, k)])

\* read_book_by_rating(3) missed on a catalog of a rating 4 entity followed
\* by a rating 2 entity: the entry just stored holds the second entity alone
C11_Witness ==
    LET key == KeyOf("read_book_by_rating", KwRating(3))
    IN  /\ Len(BOOKS) = 2
        /\ BOOKS[1].rating = 4
        /\ BOOKS[2].rating = 2
        /\ key \in DOMAIN store
        /\ store[key].ttl = ttl_seconds
        /\ json_loads(store[key].value) = PyList(<<PyStr(json_dumps(PyDict(BOOKS[2])))>>)

(***************************************************************************)
(* C12.  Entries change only on a miss.                                    *)
(***************************************************************************)
\* every entry of the store is in the next state what it is in this one
Untouched ==
    \A k \in DOMAIN store : k \in DOMAIN store' /\ store'[k] = store[k]

\* time passed and nothing else happened: every entry with a time to live
\* aged by TickStep or, its time being up, went; no entry came
Aged ==
    /\ BOOKS' = BOOKS
    /\ DOMAIN store' \subseteq DOMAIN store
    /\ \A k \in DOMAIN store :
          IF store[k].ttl = NoExpiry THEN k \in DOMAIN store' /\ store'[k] = store[k]
          ELSE IF store[k].ttl > TickStep
          THEN k \in DOMAIN store' /\ store'[k] = [store[k] EXCEPT !.ttl = @ - TickStep]
          ELSE k \notin DOMAIN store'

\* C12: a wrapped call that hits leaves the whole store as it is (value and
\* remaining time to live of every entry); a step that changes the catalog
\* without lengthening it (update_book, delete_book) leaves the store as it
\* is; and in every step each entry there is stays untouched, unless the
\* step is the passing of time, which ages or expires entries and does
\* nothing else.
C12_ChangeOnlyOnMiss ==
    /\ [](\A c \in ReadCalls \cup CreateCalls :
            LET o == Outcome(c)
            IN  o.hit => (o.store = store /\ o.books = BOOKS))
    /\ [][/\ (BOOKS' # BOOKS /\ Len(BOOKS') <= Len(BOOKS)) => store' = store
          /\ (Untouched \/ Aged)]_vars

\* the read_all_books entry, halfway through its ttl, still lists two
\* entities after both were deleted from the catalog
C12_Witness ==
    LET key == KeyOf("read_all_books", KwAll)
    IN  /\ BOOKS = <<>>
        /\ key \in DOMAIN store
        /\ store[key].ttl = ttl_seconds - TickStep
        /\ Len(json_loads(store[key].value).v) = 2

(***************************************************************************)
(* C13.  Serialization symmetry.                                           *)
(***************************************************************************)
\* the text the decorator stores for the single result e, and for the list
\* result <<e>>, each decoded as the hit path decodes it
StoredSingle(e) ==
    LET key == KeyOf("read_all_books", KwAll)
    IN  json_loads(StoreOne(HTTP_200_OK, <<>>, EmptyStore, key, PyObject(e), 0).store[key].value)

StoredSequence(e) ==
    LET key == KeyOf("read_all_books", KwAll)
    IN  json_loads(StoreList(HTTP_200_OK, <<>>, EmptyStore, key, <<e>>, 1, <<>>, 1, 0).store[key].value)

\* C13: for every entity e of the catalog, the payload stored for e decodes
\* to a field mapping, the payload stored for the list of e alone decodes
\* to a list of one element, and that element equals the decoded single
\* result.
C13_SerializationSymmetry ==
    \A i \in 1..Len(BOOKS) :
        LET single == StoredSingle(BOOKS[i])
            sequence == StoredSequence(BOOKS[i])
        IN  /\ single = PyDict(BOOKS[i])
            /\ sequence.t = "list"
            /\ Len(sequence.v) = 1
            /\ sequence.v[1] = single

(***************************************************************************)
(* C14.  A Redis call failing inside the loop over a list result.          *)
(***************************************************************************)
\* the number of the set calls completed when Redis call number fail
\* raises: the get is call 1, item i is set by call 2i and expired by 2i+1
SetsDone(fail) == (fail - 1) \div 2

\* call c misses, and Redis call number fail is a set or an expire of the
\* loop over its list result
FailsInLoop(c, fail) ==
    /\ KeyOf(c.func, c.kwargs) \notin DOMAIN store
    /\ fail >= 2
    /\ fail <= 2 * Len(Handler(c.func, c.kwargs, BOOKS).result.v) + 1

\* the outcome o aborted the request and rolled nothing back: the catalog
\* and every entry under another key are as they were
AbortedAt(o, key) ==
    /\ o.status = HTTP_500_INTERNAL_SERVER_ERROR
    /\ ~o.returned
    /\ o.books = BOOKS
    /\ DOMAIN store \subseteq DOMAIN o.store
    /\ DOMAIN o.store \subseteq DOMAIN store \cup {key}
    /\ \A k \in DOMAIN store : o.store[k] = store[k]

\* the outcome o left under key what the completed sets wrote: nothing
\* when there was none, otherwise the first done items of result
HoldsPrefix(o, key, result, done) ==
    IF done = 0 THEN key \notin DOMAIN o.store
    ELSE /\ key \in DOMAIN o.store
         /\ json_loads(o.store[key].value).t = "list"
         /\ DecodesTo(json_loads(o.store[key].value).v, SubSeq(result, 1, done))

\* C14 as claimed: when a set or an expire of the loop fails, the request
\* aborts with the error, nothing is rolled back, the key holds what the
\* completed sets wrote, and that is a proper prefix of the result: the
\* write of the full list never happened.
C14_ProperPrefix ==
    \A c \in ReadCalls, fail \in LoopFailPoints :
        LET o == Respond(c.func, c.ok, c.kwargs, fail)
            key == KeyOf(c.func, c.kwargs)
            result == Handler(c.func, c.kwargs, BOOKS).result.v
        IN  FailsInLoop(c, fail) =>
              /\ AbortedAt(o, key)
              /\ HoldsPrefix(o, key, result, SetsDone(fail))
              /\ SetsDone(fail) < Len(result)

\* C14, amended: when a set or an expire of the loop fails, the request
\* aborts with the error, nothing is rolled back and the key holds what the
\* completed sets wrote: a prefix of the result, proper unless the call
\* that fails is the expire of the last item, when the full list has been
\* written.  The entry has no expiration when an expire failed, and
\* ttl_seconds to live when a set failed.
C14_PartialFailure ==
    \A c \in ReadCalls, fail \in LoopFailPoints :
        LET o == Respond(c.func, c.ok, c.kwargs, fail)
            key == KeyOf(c.func, c.kwargs)
            result == Handler(c.func, c.kwargs, BOOKS).result.v
            done == SetsDone(fail)
        IN  FailsInLoop(c, fail) =>
              /\ AbortedAt(o, key)
              /\ HoldsPrefix(o, key, result, done)
              /\ done <= Len(result)
              /\ (done = Len(result)) <=> (fail = 2 * Len(result) + 1)
              /\ done > 0 =>
                    o.store[key].ttl = IF fail = 2 * done + 1 THEN NoExpiry ELSE ttl_seconds

\* the catalog holds two entities and the read_all_books entry both, with
\* no expiration: the expire of the second, the last, item failed after
\* the set had written the full list
C14_Witness ==
    LET key == KeyOf("read_all_books", KwAll)
    IN  /\ Len(BOOKS) = 2
        /\ key \in DOMAIN store
        /\ store[key].ttl = NoExpiry
        /\ DecodesTo(json_loads(store[key].value).v, BOOKS)

(***************************************************************************)
(* C15.  Set and expire are two calls.                                     *)
(***************************************************************************)
\* the number of set calls the wrapper makes for the result of call c
SetsOf(c) ==
    LET result == Handler(c.func, c.kwargs, BOOKS).result
    IN  IF result.t = "list" THEN Len(result.v) ELSE 1

\* Redis call number fail of call c is an expire, the set before it done
FailsAtExpire(c, fail) ==
    /\ fail >= 3
    /\ fail % 2 = 1
    /\ fail <= 2 * SetsOf(c) + 1

\* C15: a wrapped call that misses leaves its key without an expiration
\* exactly when one of its expire calls fails, the set before it having
\* written the key; so a call that misses and returns leaves its key, if
\* it wrote it, with ttl_seconds to live.  An identical call made while a
\* key has no expiration hits it and leaves the store as it is, and no
\* step whatever changes or removes an entry that has no expiration.
C15_SetThenExpire ==
    /\ [](\A c \in ReadCalls \cup CreateCalls :
            LET key == KeyOf(c.func, c.kwargs)
            IN  /\ key \notin DOMAIN store =>
                      \A fail \in LoopFailPoints :
                          LET o == Respond(c.func, c.ok, c.kwargs, fail)
                          IN  /\ (key \in DOMAIN o.store /\ o.store[key].ttl = NoExpiry)
                                     <=> FailsAtExpire(c, fail)
                              /\ (o.returned /\ key \in DOMAIN o.store) =>
                                     o.store[key].ttl = ttl_seconds
                /\ (key \in DOMAIN store /\ store[key].ttl = NoExpiry) =>
                      /\ Outcome(c).hit
                      /\ Outcome(c).body = json_loads(store[key].value)
                      /\ Outcome(c).store = store)
    /\ [][\A k \in DOMAIN store :
              store[k].ttl = NoExpiry => (k \in DOMAIN store' /\ store'[k] = store[k])]_vars

\* the expire of the second create_book failed after its set: the entry
\* holds the entity of id 2 and has no expiration, and outlives the
\* deletion of that entity
C15_Witness ==
    LET key == KeyOf("create_book", KwCreate(BookRequest(None, "X book", 2)))
    IN  /\ key \in DOMAIN store
        /\ store[key].ttl = NoExpiry
        /\ json_loads(store[key].value).v.id = 2
        /\ Ids(BOOKS) = {1}

(***************************************************************************)
(* C16.  The ids of the catalog.                                           *)
(***************************************************************************)
\* C16: in every state the create, update and delete calls reach, hits and
\* misses alike, the ids of the catalog are integers >= 1 and strictly
\* increasing in catalog order, so no two entities share an id.
C16_CatalogIds ==
    /\ \A i \in 1..Len(BOOKS) : BOOKS[i].id \in Nat /\ BOOKS[i].id >= 1
    /\ \A i, j \in 1..Len(BOOKS) : i < j => BOOKS[i].id < BOOKS[j].id
    /\ Cardinality(Ids(BOOKS)) = Len(BOOKS)

\* the entity of id 2 was deleted from between two others, the first of
\* which an update replaced, and a create_book entry is cached
C16_Witness ==
    /\ Len(BOOKS) = 2
    /\ BOOKS[1] = BookRequest(1, "Y book", 4)
    /\ BOOKS[2].id = 3
    /\ \E b \in CreateBodies : KeyOf("create_book", KwCreate(b)) \in DOMAIN store

(***************************************************************************)
(* C17.  Staleness is bounded by the ttl.                                  *)
(***************************************************************************)
\* C17: a wrapped call that hits returns the payload of an entry that was
\* written less than ttl_seconds ago, that is, one with between 1 and
\* ttl_seconds seconds left to live, and leaves every entry's lifetime as
\* it is; a call whose key has expired or was never written misses and
\* runs the handler on the live catalog.
C17_BoundedStaleness ==
    \A c \in ReadCalls \cup CreateCalls :
        LET o == Outcome(c)
            key == KeyOf(c.func, c.kwargs)
            ran == Handler(c.func, c.kwargs, BOOKS)
        IN  /\ o.hit =>
                 /\ store[key].ttl \in 1..ttl_seconds
                 /\ o.body = json_loads(store[key].value)
                 /\ o.store = store
            /\ key \notin DOMAIN store =>
                 /\ ~o.hit
                 /\ o.books = ran.books
                 /\ IF ran.result.t = "list"
                    THEN DecodesTo(o.body.v, ran.result.v)
                    ELSE o.body = ran.result

(***************************************************************************)
(* C18.  No entry serves another call.                                     *)
(***************************************************************************)
AllCalls == ReadCalls \cup CreateCalls

\* the calls whose key is k
CallsOf(k) == {c \in AllCalls : KeyOf(c.func, c.kwargs) = k}

\* text serializes the result of a handler, or the first items of it
SerializesPrefix(text, result) ==
    IF result.t = "list"
    THEN /\ json_loads(text).t = "list"
         /\ \E n \in 1..Len(result.v) :
               DecodesTo(json_loads(text).v, SubSeq(result.v, 1, n))
    ELSE json_loads(text) = PyDict(result.v)

\* the decoded payload is one the handler of call c can have produced for
\* the arguments of c: for create_book the fields of the request under an
\* id; for the reads a list of texts of field mappings with increasing
\* ids, for read_book_by_rating every one of a rating within the argument
Fits(c, payload) ==
    IF c.func = "create_book"
    THEN /\ payload.t = "dict"
         /\ payload.v.id >= 1
         /\ SameFields(payload.v, c.kwargs[1].value.v)
    ELSE /\ payload.t = "list"
         /\ \A i \in 1..Len(payload.v) :
               /\ payload.v[i].t = "str"
               /\ json_loads(payload.v[i].v).t = "dict"
               /\ c.func = "read_book_by_rating" =>
                     json_loads(payload.v[i].v).v.rating <= c.kwargs[1].value.v
         /\ \A i, j \in 1..Len(payload.v) :
               i < j => json_loads(payload.v[i].v).v.id < json_loads(payload.v[j].v).v.id

\* C18: in every state each entry of the store sits under the key of
\* exactly one call and holds a payload the handler of that call can have
\* produced for its arguments, and a call that hits receives the payload
\* under its own key; and whenever a step writes an entry, what it writes
\* serializes the result, or the first items of the result, of that call's
\* handler on the catalog of the step.
C18_NoCrossContamination ==
    /\ [](/\ \A k \in DOMAIN store :
               /\ Cardinality(CallsOf(k)) = 1
               /\ \A c \in CallsOf(k) : Fits(c, json_loads(store[k].value))
          /\ \A c \in AllCalls :
              Outcome(c).hit =>
                  /\ Outcome(c).body = json_loads(store[KeyOf(c.func, c.kwargs)].value)
                  /\ Fits(c, Outcome(c).body))
    /\ [][\A k \in DOMAIN store' :
              (k \notin DOMAIN store \/ store'[k].value # store[k].value) =>
                 \E c \in CallsOf(k) :
                     SerializesPrefix(store'[k].value,
                                      Handler(c.func, c.kwargs, BOOKS).result)]_vars

\* the entries of read_book_by_rating(3), of read_book_by_rating(5) and of
\* create_book are in the store together: the first lists the rating 2
\* entity alone, the second the rating 4 entity as well
C18_Witness ==
    LET three == KeyOf("read_book_by_rating", KwRating(3))
        five == KeyOf("read_book_by_rating", KwRating(5))
        made == KeyOf("create_book", KwCreate(BookRequest(None, "X book", 2)))
    IN  /\ {three, five, made} \subseteq DOMAIN store
        /\ Len(json_loads(store[three].value).v) = 1
        /\ Len(json_loads(store[five].value).v) = 2
        /\ json_loads(json_loads(store[five].value).v[1].v).v.rating = 4

(***************************************************************************)
(* C19.  Requests in flight on the one event loop.                         *)
(***************************************************************************)
\* the endpoint of the request in slot r returns in this step
Returns(r) == tasks[r].pc = "found" /\ tasks'[r].pc = "idle"

\* the catalog that the whole handler of task t, run in one piece on the
\* catalog B, leaves
InOnePiece(t, B) ==
    IF t.func = "create_book" THEN create_book(B, t.arg.v).books
    ELSE IF t.func = "update_book" THEN update_book(B, t.arg.v).books
    ELSE delete_book(B, t.arg.v).books

\* C19: with requests in flight, at most one is inside a handler body and
\* the ids of the catalog are strictly increasing, so no two entities
\* share one; the step in which a handler returns changes the catalog as
\* the whole handler run in one piece on the catalog of that step would
\* (what it read is still true when it writes), for create_book by adding
\* exactly one entity, at the end and under an id no entity has; and no
\* other step changes the catalog, so no created entity is lost.
C19_IndivisibleHandlers ==
    /\ [](/\ Cardinality({r \in Slots : tasks[r].pc = "found"}) <= 1
          /\ \A i, j \in 1..Len(BOOKS) : i < j => BOOKS[i].id < BOOKS[j].id)
    /\ [][/\ \A r \in Slots :
                Returns(r) =>
                  /\ BOOKS' = InOnePiece(tasks[r], BOOKS)
                  /\ tasks[r].func = "create_book" =>
                        /\ Len(BOOKS') = Len(BOOKS) + 1
                        /\ SubSeq(BOOKS', 1, Len(BOOKS)) = BOOKS
                        /\ BOOKS'[Len(BOOKS')].id \notin Ids(BOOKS)
          /\ (\A r \in Slots : ~Returns(r)) => BOOKS' = BOOKS]_vars

\* two create_book requests are in flight on a catalog of one entity: one
\* is inside its handler body, numbered 2, the other waits for the loop
C19_Witness ==
    \E r, q \in Slots :
        /\ tasks[r].pc = "found"
        /\ tasks[r].func = "create_book"
        /\ tasks[r].local.v.id = 2
        /\ tasks[q].pc = "received"
        /\ tasks[q].func = "create_book"
        /\ running = r
        /\ Len(BOOKS) = 1

====
